---- MODULE Spec2Model ----
(***************************************************************************)
(* The Umbrella and NetworksDB data-source actors of src/datasrcs: the     *)
(* dispatch goroutine, the rate-limit charges, the ASN resolution chains,  *)
(* the reverse-WHOIS aggregation and the scrape chains.  One behaviour of  *)
(* the model follows one actor from construction to the end of its loop.   *)
(***************************************************************************)
EXTENDS Integers, Sequences, FiniteSets, TLC

(***************************************************************************)
(* Bounds of the model.                                                    *)
(***************************************************************************)
\* Requests the orchestrator delivers to the actor's mailbox over one run.
MaxReqs == 2
\* Netblocks a provider lists in one prefixes_for_asn answer.
MaxNB == 2
\* Reverse-WHOIS pages the provider serves before its transport gives up.
MaxPages == 3
\* Capacity of the actor's outbound event channel.
OutCap == 1
\* IP links a domain-to-ips page of NetworksDB carries.
MaxLinks == 2

(***************************************************************************)
(* Strings the run is made of.                                             *)
(***************************************************************************)
Addr1 == "8.8.8.8"
Net8 == "8.8.8.0/24"
Net8Padded == "8.8.8.0/24 "
Net10 == "10.0.0.0/8"
Net16 == "8.8.0.0/16"
NetBad == "bogus"

\* config.IsDomainInScope: the names the enumeration already targets.
InScopeNames == {"in.com", "adm@in.com", "ns.in.com"}

IsDomainInScope(name) == name \in InScopeNames

\* strings.TrimSpace on the strings of the model.
TrimSpace(s) == IF s = Net8Padded THEN Net8 ELSE s

\* net.ParseIP: the address as a 32-bit number, -1 for nil.
ParseIP(a) ==
    CASE a = "8.8.8.8" -> 134744072
      [] a = "8.8.8.0" -> 134744064
      [] a = "10.0.0.0" -> 167772160
      [] OTHER -> -1

RECURSIVE Pow2(_)
Pow2(n) == IF n = 0 THEN 1 ELSE 2 * Pow2(n - 1)

\* net.ParseCIDR: err, the address before the slash, and the network.
ParseCIDR(s) ==
    CASE s = Net8 -> [ok |-> TRUE, addr |-> "8.8.8.0", base |-> 134744064, len |-> 24]
      [] s = Net10 -> [ok |-> TRUE, addr |-> "10.0.0.0", base |-> 167772160, len |-> 8]
      [] s = Net16 -> [ok |-> TRUE, addr |-> "8.8.0.0", base |-> 134742016, len |-> 16]
      [] OTHER -> [ok |-> FALSE, addr |-> "", base |-> 0, len |-> 0]

\* (*net.IPNet).Contains: the address lies in the network's range.
Contains(n, ip) ==
    /\ ip >= 0
    /\ (ip \div Pow2(32 - n.len)) = (n.base \div Pow2(32 - n.len))

\* The country the provider's geo data gives a netblock.
GeoCC(cidr) == IF cidr = Net10 THEN "CN" ELSE "US"

RECURSIVE SeqsUpTo(_, _)
SeqsUpTo(S, n) ==
    IF n = 0 THEN {<<>>}
    ELSE LET shorter == SeqsUpTo(S, n - 1)
         IN shorter \cup {Append(s, x) : s \in {t \in shorter : Len(t) = n - 1}, x \in S}

SeqToSet(s) == {s[i] : i \in 1..Len(s)}

NoDup(s) == \A i, j \in 1..Len(s) : i # j => s[i] # s[j]

(***************************************************************************)
(* Requests.  One record shape serves the four request kinds; an ASN       *)
(* request's fields are the ones the actors read and fill.                 *)
(***************************************************************************)
BlankReq ==
    [id |-> 0, kind |-> "none", Domain |-> "", Address |-> "", ASN |-> 0, Prefix |-> "",
     CC |-> "", Netblocks |-> <<>>, Tag |-> "", Source |-> ""]

DNSRequests == {[BlankReq EXCEPT !.kind = "dns", !.Domain = d] : d \in {"in.com", "out.com"}}

AddrRequests == {[BlankReq EXCEPT !.kind = "addr", !.Address = a] : a \in {"", Addr1}}

\* An ASN request arrives bare, or partially filled by another source.
ASNRequests ==
    {[BlankReq EXCEPT !.kind = "asn", !.Address = a, !.ASN = n] :
        a \in {"", Addr1}, n \in {0, 15169}}
    \cup
    {[BlankReq EXCEPT !.kind = "asn", !.Address = a, !.ASN = n,
                      !.Prefix = Net10, !.Netblocks = <<Net10>>] :
        a \in {"", Addr1}, n \in {0, 15169}}

WhoisRequests == {[BlankReq EXCEPT !.kind = "whois", !.Domain = d] : d \in {"in.com", "out.com"}}

Requests == DNSRequests \cup AddrRequests \cup ASNRequests \cup WhoisRequests

VARIABLES
    actor,      \* "Umbrella" or "NetworksDB"
    cfgCreds,   \* the credentials the configuration holds: "nokey" or "key"
    svc,        \* "zero" until NewBaseService's result is assigned, then "init"
    started,    \* OnStart has run
    startErr,   \* OnStart returned an error
    creds,      \* the actor's creds field: "nil", "nokey" or "key"
    hasAPIKey,  \* NetworksDB.hasAPIKey
    SourceType, \* "api" or "scrape"
    pair,       \* the data set of one provider and the facts of the scrape run
    pc,         \* where the dispatch goroutine is
    mailbox,    \* Input(): arrival numbers of the requests not yet dequeued
    delivered,  \* requests delivered so far
    done,       \* Done() is closed
    output,     \* Output(): events sent and not yet drained
    cur,        \* the request being processed, as it was dequeued
    req,        \* the *ASNRequest the handlers mutate
    stack,      \* callers waiting on the ASN cross-recursion
    rec,        \* the WHOIS record of the request
    rw,         \* the reverse-WHOIS page loop
    domains,    \* the novel domains gathered for the result event
    agg,        \* the reverse-WHOIS aggregation that has just returned
    loc,        \* locals of the NetworksDB chains
    adm,        \* CheckRateLimit admissions of the current request
    calls,      \* RequestWebPage calls of the current request
    admitted,   \* an admission happened since the actor's last call
    ungated,    \* some call was issued with no admission since the one before
    lateCall,   \* some call was started after done was closed
    nAddrQ,     \* executeASNAddrQuery runs of the current request
    nASNQ,      \* executeASNQuery runs of the current request
    failed,     \* a call or parse step of the current request failed
    updates,    \* facts handed to Cache.Update by the current request
    emits       \* events the current request put on Output()

lifeVars == <<actor, cfgCreds, svc, started, startErr, creds, hasAPIKey, SourceType, pair>>
envVars == <<mailbox, delivered, done>>
workVars == <<cur, req, stack, rec, rw, domains, agg, loc>>
rateVars == <<adm, calls, admitted, ungated, lateCall>>
traceVars == <<nAddrQ, nASNQ, failed, updates>>
vars == <<lifeVars, envVars, workVars, rateVars, traceVars, pc, output, emits>>

\* A JSON object with no member.
EmptyMap == [k \in {} |-> 0]

\* queryReverseWhois's locals: the offset, the decoded map and the set of
\* domains, with the pages asked for and what the provider put on them
\* (plain: the first page without the more-data flag; stop: the first page
\* without the flag or with zero total results; 0: none so far).
BlankRW ==
    [phase |-> "none", count |-> 0, whois |-> EmptyMap, found |-> {},
     served |-> 0, plain |-> 0, current |-> {}, stop |-> 0]

\* The aggregation that has just returned: the page requests it made, the
\* first page on which the provider left the more-data flag unset (0: none),
\* the domains marked current on the pages up to that one, and its result.
BlankAgg ==
    [phase |-> "none", requests |-> 0, plain |-> 0, current |-> {},
     result |-> {}, ok |-> FALSE]
BlankRec == [emails |-> {}, ns |-> {}]
BlankLoc ==
    [addr |-> "", asn |-> 0, asns |-> <<>>, idx |-> 0, netblocks |-> {},
     prefix |-> "", links |-> 0, nomatch |-> FALSE]

\* No data set is fixed: the provider answers each call as it likes.
NoPair == [asns |-> <<>>, cidrs |-> <<>>, scraped |-> <<>>]

Init ==
    /\ actor \in {"Umbrella", "NetworksDB"}
    /\ pair = NoPair
    /\ cfgCreds \in {"nokey", "key"}
    /\ svc = "zero"
    /\ started = FALSE
    /\ startErr = FALSE
    /\ creds = "nil"
    /\ hasAPIKey = (actor = "NetworksDB")
    /\ SourceType = "api"
    /\ pc = "start"
    /\ mailbox = <<>>
    /\ delivered = 0
    /\ done = FALSE
    /\ output = <<>>
    /\ cur = BlankReq
    /\ req = BlankReq
    /\ stack = <<>>
    /\ rec = BlankRec
    /\ rw = BlankRW
    /\ domains = {}
    /\ agg = BlankAgg
    /\ loc = BlankLoc
    /\ adm = 0
    /\ calls = 0
    /\ admitted = FALSE
    /\ ungated = FALSE
    /\ lateCall = FALSE
    /\ nAddrQ = 0
    /\ nASNQ = 0
    /\ failed = FALSE
    /\ updates = <<>>
    /\ emits = 0

(***************************************************************************)
(* Construction and lifecycle.                                             *)
(***************************************************************************)
\* NewUmbrella / NewNetworksDB: the BaseService is assigned after the
\* dispatch goroutine was started.
NewBaseService ==
    /\ svc = "zero"
    /\ svc' = "init"
    /\ UNCHANGED <<actor, cfgCreds, started, startErr, creds, hasAPIKey, SourceType, pair,
                   envVars, workVars, rateVars, traceVars, pc, output, emits>>

\* A test that takes any credentials for a key.
HasKeyAlways(c) == TRUE

\* creds == nil || creds.Key == "", negated.
HasKey(c) == c = "key"

\* Umbrella.OnStart with checkConfig, and NetworksDB.OnStart.
OnStart ==
    /\ svc = "init"
    /\ ~started
    /\ started' = TRUE
    /\ creds' = cfgCreds
    /\ IF actor = "Umbrella"
       THEN /\ startErr' = ~HasKey(cfgCreds)
            /\ UNCHANGED <<hasAPIKey, SourceType>>
       ELSE /\ startErr' = FALSE
            /\ hasAPIKey' = (IF HasKey(cfgCreds) THEN hasAPIKey ELSE FALSE)
            /\ SourceType' = (IF HasKey(cfgCreds) THEN SourceType ELSE "scrape")
    /\ UNCHANGED <<actor, cfgCreds, svc, pair, envVars, workVars, rateVars, traceVars,
                   pc, output, emits>>

\* The orchestrator hands a request to the actor's mailbox.  Nothing reads
\* the fields of a request before it is dequeued, so the mailbox keeps its
\* arrival number and the fields are drawn at the dequeue.
Deliver ==
    /\ svc = "init"
    /\ delivered < MaxReqs
    /\ mailbox' = Append(mailbox, delivered + 1)
    /\ delivered' = delivered + 1
    /\ UNCHANGED <<lifeVars, done, workVars, rateVars, traceVars, pc, output, emits>>

\* The orchestrator stops the service: Done() is closed.
Stop ==
    /\ svc = "init"
    /\ ~done
    /\ done' = TRUE
    /\ UNCHANGED <<lifeVars, mailbox, delivered, workVars, rateVars, traceVars,
                   pc, output, emits>>

\* The orchestrator takes one event from Output().
Drain ==
    /\ output # <<>>
    /\ output' = Tail(output)
    /\ UNCHANGED <<lifeVars, envVars, workVars, rateVars, traceVars, pc, emits>>

(***************************************************************************)
(* The dispatch loop.                                                      *)
(***************************************************************************)
\* The goroutine reaches its first select and reads u.Done() and u.Input():
\* with the BaseService still zero both are nil channels and the select
\* never wakes.
LoopEnter ==
    /\ pc = "start"
    /\ pc' = (IF svc = "zero" THEN "nilwait" ELSE "select")
    /\ UNCHANGED <<lifeVars, envVars, workVars, rateVars, traceVars, output, emits>>

\* case <-u.Done(): return
LoopReturn ==
    /\ pc = "select"
    /\ done
    /\ pc' = "returned"
    /\ UNCHANGED <<lifeVars, envVars, workVars, rateVars, traceVars, output, emits>>

(***************************************************************************)
(* Rate limiting and the bookkeeping of one request.                       *)
(***************************************************************************)
\* numRateLimitChecks(srv, num): num calls of srv.CheckRateLimit().
numRateLimitChecks(num) == num

\* A request taken from Input() without the CheckRateLimit of the dispatch
\* loop.
NoDispatchAdmission == 1 - 1

\* Umbrella.requests: the CheckRateLimit that precedes every handler.
DispatchAdmissions == 1

\* A chained query entered without its CheckRateLimit.
NoChainAdmission == 1 - 1

\* The CheckRateLimit before each hop of the ASN cross-recursion.
ChainAdmissions == 1

\* One RequestWebPage call, with the CheckRateLimit admissions the same
\* stretch of code makes before it (pre) and after it (post).
Charge(pre, post) ==
    /\ adm' = adm + pre + post
    /\ calls' = calls + 1
    /\ ungated' = (ungated \/ (~admitted /\ pre = 0))
    /\ admitted' = (post > 0)
    /\ lateCall' = (lateCall \/ done)

\* Admissions with no call in the same stretch of code.
ChargeOnly(n) ==
    /\ adm' = adm + n
    /\ admitted' = (admitted \/ n > 0)
    /\ UNCHANGED <<calls, ungated, lateCall>>

\* An event on Output().
NameEvent(name) ==
    [type |-> "name", Domain |-> name, NewDomains |-> {}, Tag |-> SourceType, Source |-> actor]

\* A result event that does not name the domain of the request.
WhoisEventUnnamed(d, new) ==
    [type |-> "whois", Domain |-> "", NewDomains |-> new, Tag |-> SourceType, Source |-> actor]

WhoisEvent(d, new) ==
    [type |-> "whois", Domain |-> d, NewDomains |-> new, Tag |-> SourceType, Source |-> actor]

(***************************************************************************)
(* Umbrella: the entry of each handler, up to its first outbound call.     *)
(***************************************************************************)
\* The handlers with the test of the credentials left out.
UEntryKeyless(in) ==
    CASE in.kind = "dns" ->
            IF IsDomainInScope(in.Domain) THEN "u_dns" ELSE "select"
      [] in.kind = "addr" ->
            IF in.Address = "" THEN "select" ELSE "u_addr"
      [] in.kind = "asn" ->
            IF in.Address = "" /\ in.ASN = 0 THEN "select"
            ELSE IF in.Address # "" THEN "u_addrq" ELSE "u_asnq"
      [] OTHER ->
            IF IsDomainInScope(in.Domain) THEN "u_whois" ELSE "select"

\* The handlers with asnRequest's test of its input left out.
UEntryUnchecked(in) ==
    IF ~HasKey(creds) THEN "select"
    ELSE CASE in.kind = "dns" ->
                IF IsDomainInScope(in.Domain) THEN "u_dns" ELSE "select"
           [] in.kind = "addr" ->
                IF in.Address = "" THEN "select" ELSE "u_addr"
           [] in.kind = "asn" ->
                IF in.Address # "" THEN "u_addrq" ELSE "u_asnq"
           [] OTHER ->
                IF IsDomainInScope(in.Domain) THEN "u_whois" ELSE "select"

\* dnsRequest, addrRequest, asnRequest and whoisRequest: the early returns.
UEntry(in) ==
    IF ~HasKey(creds) THEN "select"
    ELSE CASE in.kind = "dns" ->
                IF IsDomainInScope(in.Domain) THEN "u_dns" ELSE "select"
           [] in.kind = "addr" ->
                IF in.Address = "" THEN "select" ELSE "u_addr"
           [] in.kind = "asn" ->
                IF in.Address = "" /\ in.ASN = 0 THEN "select"
                ELSE IF in.Address # "" THEN "u_addrq" ELSE "u_asnq"
           [] OTHER ->
                IF IsDomainInScope(in.Domain) THEN "u_whois" ELSE "select"

\* A receive that takes the request delivered last.
ReceiveNewest(q) == [in |-> q[Len(q)], rest |-> SubSeq(q, 1, Len(q) - 1)]

\* in := <-u.Input(): the channel hands over the request delivered first.
Receive(q) == [in |-> Head(q), rest |-> Tail(q)]

\* Umbrella.requests: one request is taken from Input(), charged once and
\* handed to its handler.
UDequeue ==
    /\ actor = "Umbrella"
    /\ pc = "select"
    /\ mailbox # <<>>
    /\ \E r \in Requests :
          LET in == [r EXCEPT !.id = Receive(mailbox).in]
          IN /\ mailbox' = Receive(mailbox).rest
             /\ cur' = in
             /\ req' = in
             /\ pc' = UEntry(in)
    /\ stack' = <<>>
    /\ rec' = BlankRec
    /\ rw' = BlankRW
    /\ domains' = {}
    /\ agg' = BlankAgg
    /\ loc' = BlankLoc
    /\ adm' = DispatchAdmissions
    /\ calls' = 0
    /\ admitted' = (admitted \/ DispatchAdmissions > 0)
    /\ nAddrQ' = 0
    /\ nASNQ' = 0
    /\ failed' = FALSE
    /\ updates' = <<>>
    /\ emits' = 0
    /\ UNCHANGED <<lifeVars, delivered, done, ungated, lateCall, output>>

(***************************************************************************)
(* Umbrella: passive DNS names for a domain and for an address.            *)
(***************************************************************************)
\* What the provider answers a name search: a transport error, a body that
\* is no JSON, or the names it knows.
NameAnswers == {"transport", "badjson", "none", "www.in.com"}

\* dnsRequest and addrRequest after their guards: the call, and the names
\* of the answer handed to genNewNameEvent.
UNameQuery ==
    /\ pc \in {"u_dns", "u_addr"}
    /\ Charge(0, 0)
    /\ \E a \in NameAnswers :
          IF a \in {"transport", "badjson"}
          THEN /\ failed' = TRUE
               /\ pc' = "select"
               /\ UNCHANGED domains
          ELSE IF a = "none"
          THEN /\ pc' = "select"
               /\ UNCHANGED <<failed, domains>>
          ELSE /\ domains' = {a}
               /\ pc' = "u_emit"
               /\ UNCHANGED failed
    /\ UNCHANGED <<lifeVars, envVars, cur, req, stack, rec, rw, agg, loc,
                   nAddrQ, nASNQ, updates, output, emits>>

\* genNewNameEvent: the name goes on Output() unless the service is done.
genNewNameEvent ==
    /\ pc = "u_emit"
    /\ \E name \in domains :
          \/ /\ Len(output) < OutCap
             /\ output' = Append(output, NameEvent(name))
             /\ emits' = emits + 1
          \/ /\ done
             /\ UNCHANGED <<output, emits>>
    /\ pc' = "select"
    /\ UNCHANGED <<lifeVars, envVars, workVars, rateVars, traceVars>>

(***************************************************************************)
(* Umbrella: ASN resolution.                                               *)
(***************************************************************************)
\* as_for_ip.json: a failure, or the first AS record of the answer.
AsForIPAnswers ==
    {[kind |-> k, ASN |-> 0, CIDR |-> ""] : k \in {"transport", "badjson", "empty", "baddate"}}
    \cup {[kind |-> "ok", ASN |-> 15169, CIDR |-> c] : c \in {"", Net8, Net8Padded}}

\* prefixes_for_asn.json: a failure, or the netblocks of the answer.
PrefixesAnswers ==
    {[kind |-> k, netblock |-> <<>>] : k \in {"transport", "badjson", "empty"}}
    \cup {[kind |-> "ok", netblock |-> nb] :
            nb \in (SeqsUpTo({Net8, Net10, NetBad}, MaxNB) \ {<<>>})}

\* Cache.Update reached on every return, the failed ones included.
UnwindAlwaysUpdates(stk, r) ==
    LET n == Cardinality({i \in 1..Len(stk) : stk[i] = "addrq"})
    IN [i \in 1..(n + 1) |-> r]

\* The returns that follow the end of the innermost query: each waiting
\* executeASNAddrQuery hands the request to Cache.Update, each waiting
\* executeASNQuery just returns.
UnwindUpdates(stk, r) ==
    LET n == Cardinality({i \in 1..Len(stk) : stk[i] = "addrq"})
    IN [i \in 1..n |-> r]

\* The netblock query run whatever the request already holds.
AlwaysQueriesNetblocks(r) == TRUE

\* Line 225: the netblocks are queried only when the request has none.
NeedsNetblocks(r) == Len(r.Netblocks) = 0

\* Lines 218-224: the AS record is copied into the request.
FillFromAS(r, a) ==
    [r EXCEPT !.ASN = a.ASN, !.Prefix = a.CIDR, !.Tag = SourceType, !.Source = "Umbrella"]

\* executeASNAddrQuery.
UExecuteASNAddrQuery ==
    /\ pc = "u_addrq"
    /\ nAddrQ' = nAddrQ + 1
    /\ \E a \in AsForIPAnswers :
          IF a.kind # "ok"
          THEN /\ Charge(0, 0)
               /\ failed' = TRUE
               /\ updates' = updates \o UnwindUpdates(stack, req)
               /\ pc' = "select"
               /\ UNCHANGED <<req, stack>>
          ELSE LET r == FillFromAS(req, a)
               IN IF NeedsNetblocks(r)
                  THEN /\ Charge(0, ChainAdmissions)
                       /\ req' = [r EXCEPT !.Netblocks = <<TrimSpace(r.Prefix)>>]
                       /\ stack' = Append(stack, "addrq")
                       /\ pc' = "u_asnq"
                       /\ UNCHANGED <<failed, updates>>
                  ELSE /\ Charge(0, 0)
                       /\ req' = r
                       /\ updates' = updates \o <<r>> \o UnwindUpdates(stack, r)
                       /\ pc' = "select"
                       /\ UNCHANGED <<failed, stack>>
    /\ UNCHANGED <<lifeVars, envVars, cur, rec, rw, domains, agg, loc, nASNQ, output, emits>>

\* Lines 255-260: every netblock is appended, and the country of the one
\* equal to the prefix is kept.
AppendNetblocks(r, nb) ==
    LET hit == {i \in 1..Len(nb) : nb[i] = r.Prefix}
    IN [r EXCEPT !.Netblocks = r.Netblocks \o [i \in 1..Len(nb) |-> TrimSpace(nb[i])],
                 !.CC = IF hit = {} THEN r.CC
                        ELSE GeoCC(nb[CHOOSE i \in hit : \A j \in hit : j <= i])]

\* executeASNQuery.
UExecuteASNQuery ==
    /\ pc = "u_asnq"
    /\ nASNQ' = nASNQ + 1
    /\ \E a \in PrefixesAnswers :
          IF a.kind # "ok"
          THEN /\ Charge(0, 0)
               /\ failed' = TRUE
               /\ updates' = updates \o UnwindUpdates(stack, req)
               /\ pc' = "select"
               /\ UNCHANGED <<req, stack>>
          ELSE LET r == AppendNetblocks(req, a.netblock)
                   probe == ParseCIDR(a.netblock[1])
               IN IF r.Prefix = "" /\ probe.ok
                  THEN /\ Charge(0, ChainAdmissions)
                       /\ req' = [r EXCEPT !.Address = probe.addr,
                                           !.CC = GeoCC(a.netblock[1])]
                       /\ stack' = Append(stack, "asnq")
                       /\ pc' = "u_addrq"
                       /\ UNCHANGED <<failed, updates>>
                  ELSE /\ Charge(0, 0)
                       /\ req' = r
                       /\ updates' = updates \o UnwindUpdates(stack, r)
                       /\ pc' = "select"
                       /\ UNCHANGED <<failed, stack>>
    /\ UNCHANGED <<lifeVars, envVars, cur, rec, rw, domains, agg, loc, nAddrQ, output, emits>>

(***************************************************************************)
(* Umbrella: the WHOIS record and the reverse-WHOIS aggregation.           *)
(***************************************************************************)
\* Umbrella provides data in 500 piece chunks.
PageSize == 500

validateScope(input) == input # "" /\ IsDomainInScope(input)

\* The contact emails and the name servers of a WHOIS record.
WhoisRecords ==
    {[emails |-> e, ns |-> n] :
        e \in {{""}, {"adm@in.com"}, {"", "x@out.com"}, {"adm@in.com", "x@out.com"}},
        n \in {{}, {"ns.in.com"}, {"ns.out.com"}}}

\* The ways a call can fail before its answer is read: the transport, or a
\* body json.Unmarshal rejects.
CallFailures == {"transport", "badjson"}

\* collateEmails: the contact emails the scope accepts, as a set.
collateEmails(record) == {e \in record.emails : validateScope(e)}

\* whoisRequest lines 422-427.
ScopedNameservers(record) == {n \in record.ns : validateScope(n)}

\* rWhoisResponse values the provider puts under a key of a page.
RWhoisEntries ==
    { [TotalResults |-> 1, MoreData |-> TRUE,
       Domains |-> {<<"new.com", TRUE>>}],
      [TotalResults |-> 1, MoreData |-> FALSE,
       Domains |-> {<<"in.com", TRUE>>, <<"new.com", TRUE>>, <<"old.com", FALSE>>}],
      [TotalResults |-> 0, MoreData |-> FALSE, Domains |-> {}],
      [TotalResults |-> 0, MoreData |-> TRUE, Domains |-> {}] }

RWhoisKeys == {"k1", "k2"}

\* A page of a reverse-WHOIS answer: a JSON object of rWhoisResponse values.
RWhoisPages == UNION {[K -> RWhoisEntries] : K \in SUBSET RWhoisKeys}

\* json.Unmarshal into the map declared before the loop: the members of the
\* page replace the entries of their keys, the other entries stay.
UnmarshalInto(whois, page) ==
    [k \in (DOMAIN whois) \cup (DOMAIN page) |->
        IF k \in DOMAIN page THEN page[k] ELSE whois[k]]

\* The scan without the test of domain.Current.
CurrentOfAny(whois) ==
    LET withResults == {k \in DOMAIN whois : whois[k].TotalResults > 0}
    IN {e[1] : e \in UNION {whois[k].Domains : k \in withResults}}

\* Lines 373-380: the current domains of the entries with results.
CurrentOf(whois) ==
    LET withResults == {k \in DOMAIN whois : whois[k].TotalResults > 0}
    IN {e[1] : e \in {d \in UNION {whois[k].Domains : k \in withResults} : d[2]}}

\* Lines 381-383: some entry asks for more.
MoreOf(whois) == \E k \in DOMAIN whois : whois[k].MoreData

\* The domains a page marks current, and whether it sets the more-data flag.
PageCurrent(page) == {d[1] : d \in {e \in UNION {page[k].Domains : k \in DOMAIN page} : e[2]}}
PageMore(page) == \E k \in DOMAIN page : page[k].MoreData
PageZero(page) == \A k \in DOMAIN page : page[k].TotalResults = 0

StartRW(phase) == [BlankRW EXCEPT !.phase = phase]

\* An aggregation entered whatever the record holds.
FirstAggregationUnguarded(emails, ns) == IF ns = {} THEN "email" ELSE "ns"

\* Lines 413 and 428: the aggregation whoisRequest runs first, if any.
FirstAggregation(emails, ns) ==
    IF emails # {} THEN "email" ELSE IF ns # {} THEN "ns" ELSE "none"

\* queryWhois, collateEmails and the choice of the first aggregation.
UQueryWhois ==
    /\ pc = "u_whois"
    /\ Charge(1, 0)
    /\ \/ /\ \E f \in CallFailures : failed' = TRUE
          /\ pc' = "select"
          /\ UNCHANGED <<rec, rw>>
       \/ \E a \in WhoisRecords :
             LET emails == collateEmails(a)
                 ns == ScopedNameservers(a)
                 first == FirstAggregation(emails, ns)
             IN /\ rec' = [emails |-> emails, ns |-> ns]
                /\ rw' = IF first = "none" THEN BlankRW ELSE StartRW(first)
                /\ pc' = IF first = "none" THEN "select" ELSE "u_rw"
                /\ UNCHANGED failed
    /\ UNCHANGED <<lifeVars, envVars, cur, req, stack, domains, agg, loc,
                   nAddrQ, nASNQ, updates, output, emits>>

\* The record kept of a finished aggregation.
AggOf(r, result, ok) ==
    [phase |-> r.phase, requests |-> r.served, plain |-> r.plain,
     current |-> r.current, result |-> result, ok |-> ok]

\* whoisRequest after queryReverseWhois returns: the novel domains are kept,
\* then the name-server aggregation runs, then the event is sent.
AfterAggregation(r, result, ok) ==
    LET novel == {d \in result : ~IsDomainInScope(d)}
        all == domains \cup novel
    IN /\ domains' = all
       /\ agg' = AggOf(r, result, ok)
       /\ IF r.phase = "email" /\ rec.ns # {}
          THEN /\ rw' = StartRW("ns")
               /\ pc' = "u_rw"
          ELSE /\ rw' = BlankRW
               /\ pc' = IF all # {} THEN "send" ELSE "select"

\* One turn of queryReverseWhois's loop: the admission, the page request at
\* the current offset, and the scan of the decoded map.
UReverseWhoisPage ==
    /\ pc = "u_rw"
    /\ Charge(1, 0)
    /\ LET asked == [rw EXCEPT !.served = rw.served + 1]
       IN \/ /\ \E f \in CallFailures : failed' = TRUE
             /\ AfterAggregation(asked, rw.found, FALSE)
          \/ /\ rw.served < MaxPages
             /\ UNCHANGED failed
             /\ \E a \in RWhoisPages :
                   LET whois == UnmarshalInto(rw.whois, a)
                       got == [asked EXCEPT
                                 !.whois = whois,
                                 !.found = rw.found \cup CurrentOf(whois),
                                 !.plain = IF rw.plain = 0 /\ ~PageMore(a)
                                           THEN asked.served ELSE rw.plain,
                                 !.current = IF rw.plain = 0
                                             THEN rw.current \cup PageCurrent(a)
                                             ELSE rw.current,
                                 !.stop = IF rw.stop = 0 /\ (~PageMore(a) \/ PageZero(a))
                                          THEN asked.served ELSE rw.stop]
                   IN IF MoreOf(whois)
                      THEN /\ rw' = [got EXCEPT !.count = rw.count + PageSize]
                           /\ agg' = BlankAgg
                           /\ UNCHANGED <<pc, domains>>
                      ELSE AfterAggregation(got, got.found, TRUE)
    /\ UNCHANGED <<lifeVars, envVars, cur, req, stack, rec, loc,
                   nAddrQ, nASNQ, updates, output, emits>>

\* u.Output() <- &requests.WhoisRequest{...}: the send waits for room.
SendWhoisEvent ==
    /\ pc = "send"
    /\ Len(output) < OutCap
    /\ output' = Append(output, WhoisEvent(cur.Domain, domains))
    /\ emits' = emits + 1
    /\ pc' = "select"
    /\ UNCHANGED <<lifeVars, envVars, workVars, rateVars, traceVars>>

(***************************************************************************)
(* NetworksDB: dispatch.                                                   *)
(***************************************************************************)
\* asnRequest and whoisRequest up to their first outbound call.
NEntry(in) ==
    CASE in.kind = "asn" ->
            IF in.Address = "" /\ in.ASN = 0 THEN "select"
            ELSE IF hasAPIKey
                 THEN IF in.Address # "" THEN "n_api_ip" ELSE "n_api_nb0"
                 ELSE IF in.Address # "" THEN "n_s_ip" ELSE "n_s_as2"
      [] in.kind = "whois" ->
            IF IsDomainInScope(in.Domain) THEN "n_w_ips" ELSE "select"
      [] OTHER -> "select"

\* The admissions of NetworksDB.requests and of the handler's entry.
NEntryCharge(in) ==
    IF in.kind \notin {"asn", "whois"} THEN 0
    ELSE IF NEntry(in) = "select" THEN 1
    ELSE 1 + numRateLimitChecks(2)

\* NetworksDB.requests: requests of the other kinds are dropped by the switch.
NDequeueOf(reqs) ==
    /\ actor = "NetworksDB"
    /\ pc = "select"
    /\ mailbox # <<>>
    /\ \E r \in reqs :
          LET in == [r EXCEPT !.id = Receive(mailbox).in]
          IN /\ mailbox' = Receive(mailbox).rest
             /\ cur' = in
             /\ req' = in
             /\ pc' = NEntry(in)
             /\ loc' = [BlankLoc EXCEPT !.addr = in.Address, !.asn = in.ASN]
             /\ adm' = NEntryCharge(in)
             /\ admitted' = (admitted \/ NEntryCharge(in) > 0)
    /\ stack' = <<>>
    /\ rec' = BlankRec
    /\ rw' = BlankRW
    /\ domains' = {}
    /\ agg' = BlankAgg
    /\ calls' = 0
    /\ nAddrQ' = 0
    /\ nASNQ' = 0
    /\ failed' = FALSE
    /\ updates' = <<>>
    /\ emits' = 0
    /\ UNCHANGED <<lifeVars, delivered, done, ungated, lateCall, output>>

NDequeue == NDequeueOf(Requests)

\* What the NetworksDB chains leave alone.
nFrame == <<lifeVars, envVars, cur, req, stack, rec, rw, agg, nAddrQ, nASNQ, output, emits>>

\* getHeaders reads n.creds.Key whenever hasAPIKey is set.
HeadersPanic == hasAPIKey /\ creds = "nil"

\* The orders stringset's Slice() may list a set in.
Slices(S) == {f \in [1..Cardinality(S) -> S] : SeqToSet(f) = S}

\* A search that takes every netblock for one containing the address.
ContainingAny(S, addr) == S

\* The netblocks of a set that parse and contain the address.
Containing(S, addr) ==
    {c \in S : ParseCIDR(c).ok /\ Contains(ParseCIDR(c), ParseIP(addr))}

\* Lines 207-220 and 300-312: the first netblock of Slice() that contains the
\* address, else the first netblock of Slice().
PrefixChoices(S, addr) ==
    IF addr # "" /\ Containing(S, addr) # {} THEN Containing(S, addr)
    ELSE IF S # {} THEN S ELSE {""}

(***************************************************************************)
(* NetworksDB: the API chain.                                              *)
(***************************************************************************)
\* The ways an API call yields nothing: the transport, the JSON, the error
\* member.
APIFailures == {"transport", "badjson", "apierror"}

IPInfoAnswers ==
    {[Total |-> t, Results |-> r] :
        t \in {0, 1}, r \in {<<>>, <<[id |-> "", cidr |-> Net8]>>, <<[id |-> "X", cidr |-> Net8]>>}}

\* apiIPQuery's second result.
OrgIDOf(m) == IF m.Total = 0 \/ Len(m.Results) = 0 THEN "" ELSE m.Results[1].id

\* executeAPIASNAddrQuery, first step: apiIPQuery.
NApiIPQueryOn(answers) ==
    /\ pc = "n_api_ip"
    /\ IF HeadersPanic
       THEN /\ ChargeOnly(numRateLimitChecks(3))
            /\ pc' = "panic_getHeaders"
            /\ UNCHANGED failed
       ELSE \/ /\ \E f \in APIFailures : failed' = TRUE
               /\ Charge(numRateLimitChecks(3), 0)
               /\ pc' = "select"
            \/ \E m \in answers :
                  IF OrgIDOf(m) = ""
                  THEN /\ Charge(numRateLimitChecks(3), 0)
                       /\ failed' = TRUE
                       /\ pc' = "select"
                  ELSE /\ Charge(numRateLimitChecks(3), numRateLimitChecks(3))
                       /\ pc' = "n_api_org"
                       /\ UNCHANGED failed
    /\ UNCHANGED <<nFrame, loc, domains, updates>>

NApiIPQuery == NApiIPQueryOn(IPInfoAnswers)

OrgInfoAnswers ==
    {[Total |-> t, Results |-> r] :
        t \in {0, 1},
        r \in {<<>>} \cup {<<[ASNs |-> a]>> : a \in SeqsUpTo({15169, 64500}, 2)}}

\* Line 394 indexes m.Results[0] whenever total is not zero.
OrgInfoPanics(m) == m.Total # 0 /\ Len(m.Results) = 0

\* apiOrgInfoQuery's result.
OrgASNsOf(m) ==
    IF m.Total = 0 \/ Len(m.Results[1].ASNs) = 0 THEN <<>> ELSE m.Results[1].ASNs

\* executeAPIASNAddrQuery, second step: apiOrgInfoQuery.
NApiOrgInfoQueryOn(answers) ==
    /\ pc = "n_api_org"
    /\ IF HeadersPanic
       THEN /\ ChargeOnly(numRateLimitChecks(3))
            /\ pc' = "panic_getHeaders"
            /\ UNCHANGED <<failed, loc>>
       ELSE \/ /\ \E f \in APIFailures : failed' = TRUE
               /\ Charge(numRateLimitChecks(3), 0)
               /\ pc' = "select"
               /\ UNCHANGED loc
            \/ \E m \in answers :
                  IF OrgInfoPanics(m)
                  THEN /\ Charge(numRateLimitChecks(3), 0)
                       /\ pc' = "panic_apiOrgInfoQuery"
                       /\ UNCHANGED <<failed, loc>>
                  ELSE IF OrgASNsOf(m) = <<>>
                  THEN /\ Charge(numRateLimitChecks(3), 0)
                       /\ failed' = TRUE
                       /\ pc' = "select"
                       /\ UNCHANGED loc
                  ELSE /\ Charge(numRateLimitChecks(3), numRateLimitChecks(3))
                       /\ loc' = [loc EXCEPT !.asns = OrgASNsOf(m), !.idx = 1]
                       /\ pc' = "n_api_nb"
                       /\ UNCHANGED failed
    /\ UNCHANGED <<nFrame, domains, updates>>

NApiOrgInfoQuery == NApiOrgInfoQueryOn(OrgInfoAnswers)

NetblocksAnswers ==
    {[Total |-> t, Results |-> r] : t \in {0, 1}, r \in SUBSET {Net8, Net10, NetBad}}

\* apiNetblocksQuery's result.
NetblocksOf(m) == IF m.Total = 0 THEN {} ELSE m.Results

\* One candidate of executeAPIASNAddrQuery's loop: its netblocks are fetched
\* and searched for the address; on a hit executeAPIASNQuery picks the prefix.
NApiCandidateOn(answers) ==
    /\ pc = "n_api_nb"
    /\ IF HeadersPanic
       THEN /\ ChargeOnly(numRateLimitChecks(3))
            /\ pc' = "panic_getHeaders"
            /\ UNCHANGED <<failed, loc>>
       ELSE \E ans \in {[kind |-> "fail", m |-> [Total |-> 0, Results |-> {}]]}
                       \cup {[kind |-> "data", m |-> m] : m \in answers} :
               LET cidrs == NetblocksOf(ans.m)
                   hit == Containing(cidrs, loc.addr) # {}
                   last == loc.idx = Len(loc.asns)
               IN /\ failed' = (failed \/ cidrs = {})
                  /\ IF hit
                     THEN /\ Charge(numRateLimitChecks(3), numRateLimitChecks(3))
                          /\ \E p \in PrefixChoices(cidrs, loc.addr) :
                                loc' = [loc EXCEPT !.asn = loc.asns[loc.idx],
                                                   !.netblocks = cidrs, !.prefix = p]
                          /\ pc' = "n_api_info"
                     ELSE IF last
                     THEN /\ Charge(numRateLimitChecks(3), 0)
                          /\ loc' = [loc EXCEPT !.netblocks = cidrs]
                          /\ pc' = "select"
                     ELSE /\ Charge(numRateLimitChecks(3), numRateLimitChecks(3))
                          /\ loc' = [loc EXCEPT !.idx = loc.idx + 1, !.netblocks = cidrs]
                          /\ pc' = "n_api_nb"
    /\ UNCHANGED <<nFrame, domains, updates>>

NApiCandidate == NApiCandidateOn(NetblocksAnswers)

\* executeAPIASNQuery for a request with an AS number and no address.
NApiNetblocks ==
    /\ pc = "n_api_nb0"
    /\ IF HeadersPanic
       THEN /\ ChargeOnly(numRateLimitChecks(3))
            /\ pc' = "panic_getHeaders"
            /\ UNCHANGED <<failed, loc>>
       ELSE \E ans \in {[kind |-> "fail", m |-> [Total |-> 0, Results |-> {}]]}
                       \cup {[kind |-> "data", m |-> m] : m \in NetblocksAnswers} :
               LET cidrs == NetblocksOf(ans.m)
               IN IF cidrs = {}
                  THEN /\ Charge(numRateLimitChecks(3), 0)
                       /\ failed' = TRUE
                       /\ pc' = "select"
                       /\ UNCHANGED loc
                  ELSE /\ Charge(numRateLimitChecks(3), numRateLimitChecks(3))
                       /\ \E p \in PrefixChoices(cidrs, loc.addr) :
                             loc' = [loc EXCEPT !.netblocks = cidrs, !.prefix = p]
                       /\ pc' = "n_api_info"
                       /\ UNCHANGED failed
    /\ UNCHANGED <<nFrame, domains, updates>>

ASNInfoAnswers ==
    {[Total |-> t, Results |-> r] :
        t \in {0, 1},
        r \in {<<>>} \cup {<<[ASN |-> a, CountryCode |-> "US"]>> : a \in {15169, 64500}}}

\* Lines 321-326: the fact executeAPIASNQuery hands to the cache.
APIFact(m, l, nb) ==
    [BlankReq EXCEPT !.kind = "asn", !.ASN = m.Results[1].ASN, !.CC = m.Results[1].CountryCode,
                     !.Address = l.addr, !.Prefix = l.prefix, !.Netblocks = nb,
                     !.Tag = SourceType, !.Source = "NetworksDB"]

\* executeAPIASNQuery, last step: apiASNInfoQuery and Cache.Update.
NApiASNInfoOn(answers) ==
    /\ pc = "n_api_info"
    /\ IF HeadersPanic
       THEN /\ ChargeOnly(numRateLimitChecks(3))
            /\ pc' = "panic_getHeaders"
            /\ UNCHANGED <<failed, updates>>
       ELSE /\ Charge(numRateLimitChecks(3), 0)
            /\ pc' = "select"
            /\ \/ /\ \E f \in APIFailures : failed' = TRUE
                  /\ UNCHANGED updates
               \/ \E m \in answers :
                     IF m.Total = 0 \/ Len(m.Results) = 0
                     THEN /\ failed' = TRUE
                          /\ UNCHANGED updates
                     ELSE /\ \E nb \in Slices(loc.netblocks) :
                                updates' = Append(updates, APIFact(m, loc, nb))
                          /\ UNCHANGED failed
    /\ UNCHANGED <<nFrame, loc, domains>>

NApiASNInfo == NApiASNInfoOn(ASNInfoAnswers)

(***************************************************************************)
(* NetworksDB: the scrape chain.  A page is what the patterns find in it.  *)
(***************************************************************************)
\* The IP detail page: whether networksdbASNLinkRE matches.
IPPages == {[link |-> l] : l \in BOOLEAN}

\* executeASNAddrQuery, first page.
NScrapeIPPageOn(pages) ==
    /\ pc = "n_s_ip"
    /\ \/ /\ Charge(0, 0)
          /\ failed' = TRUE
          /\ pc' = "select"
       \/ \E page \in pages :
             IF ~page.link
             THEN /\ Charge(0, 0)
                  /\ failed' = TRUE
                  /\ pc' = "select"
             ELSE /\ Charge(0, numRateLimitChecks(3))
                  /\ pc' = "n_s_as1"
                  /\ UNCHANGED failed
    /\ UNCHANGED <<nFrame, loc, domains, updates>>

NScrapeIPPage == NScrapeIPPageOn(IPPages)

\* The AS page: the CIDR matches and the digits networksdbASNRE captures
\* ("none": no match; "": a match of no digit).
ASPages ==
    {[cidrs |-> c, asn |-> a, name |-> n, cc |-> k] :
        c \in SUBSET {Net8Padded, Net10, NetBad}, a \in {"none", "", "15169"},
        n \in BOOLEAN, k \in BOOLEAN}

\* strconv.Atoi on the digits of the model: err, and the number.
Atoi(d) == IF d = "15169" THEN [ok |-> TRUE, n |-> 15169] ELSE [ok |-> FALSE, n |-> 0]

\* Lines 153-157 and 201-205: the trimmed CIDR matches join the set.
InsertCIDRs(S, page) == S \cup {TrimSpace(c) : c \in page.cidrs}

\* executeASNAddrQuery, second page: the netblocks and the AS number.
NScrapeASPageOn(pages) ==
    /\ pc = "n_s_as1"
    /\ Charge(0, 0)
    /\ \/ /\ failed' = TRUE
          /\ pc' = "select"
          /\ UNCHANGED loc
       \/ \E page \in pages :
             IF page.asn = "none" \/ ~Atoi(page.asn).ok
             THEN /\ failed' = TRUE
                  /\ pc' = "select"
                  /\ UNCHANGED loc
             ELSE /\ loc' = [loc EXCEPT !.asn = Atoi(page.asn).n,
                                        !.netblocks = InsertCIDRs({}, page)]
                  /\ pc' = "n_s_as2"
                  /\ UNCHANGED failed
    /\ UNCHANGED <<nFrame, domains, updates>>

NScrapeASPage == NScrapeASPageOn(ASPages)

\* Lines 222-231: the fact the scrape chain hands to the cache.
ScrapeFact(l, prefix, nb) ==
    [BlankReq EXCEPT !.kind = "asn", !.Address = l.addr, !.ASN = l.asn, !.Prefix = prefix,
                     !.CC = "US", !.Netblocks = nb,
                     !.Tag = SourceType, !.Source = "NetworksDB"]

\* executeASNQuery: the AS page is fetched, the name and the country are
\* required, the netblocks are completed and the prefix chosen.
NScrapeASNQueryOn(pages) ==
    /\ pc = "n_s_as2"
    /\ Charge(numRateLimitChecks(3), 0)
    /\ pc' = "select"
    /\ \/ /\ failed' = TRUE
          /\ UNCHANGED <<loc, updates>>
       \/ \E page \in pages :
             IF ~page.name \/ ~page.cc
             THEN /\ failed' = TRUE
                  /\ loc' = [loc EXCEPT !.nomatch = TRUE]
                  /\ UNCHANGED updates
             ELSE LET all == InsertCIDRs(loc.netblocks, page)
                  IN /\ \E p \in PrefixChoices(all, loc.addr), nb \in Slices(all) :
                           /\ loc' = [loc EXCEPT !.netblocks = all, !.prefix = p]
                           /\ updates' = Append(updates, ScrapeFact(loc, p, nb))
                     /\ UNCHANGED failed
    /\ UNCHANGED <<nFrame, domains>>

NScrapeASNQuery == NScrapeASNQueryOn(ASPages)

(***************************************************************************)
(* NetworksDB: domains sharing the networks of a domain's addresses.       *)
(***************************************************************************)
\* whoisRequest, the domain-to-ips page: the IP links found on it.
NWhoisLinks ==
    /\ pc = "n_w_ips"
    /\ \/ /\ Charge(0, 0)
          /\ failed' = TRUE
          /\ pc' = "select"
          /\ UNCHANGED loc
       \/ \E n \in 0..MaxLinks :
             IF n = 0
             THEN /\ Charge(0, 0)
                  /\ failed' = TRUE
                  /\ pc' = "select"
                  /\ UNCHANGED loc
             ELSE /\ Charge(0, numRateLimitChecks(3))
                  /\ loc' = [loc EXCEPT !.links = n]
                  /\ pc' = "n_w_ip"
                  /\ UNCHANGED failed
    /\ UNCHANGED <<nFrame, domains, updates>>

\* The loop moves to the next link, or ends and decides on the event; charge
\* is the admissions of the stretch that ends with this turn's call.
NextLink(found) ==
    /\ domains' = found
    /\ loc' = [loc EXCEPT !.links = loc.links - 1]
    /\ IF loc.links > 1
       THEN /\ Charge(0, numRateLimitChecks(3))
            /\ pc' = "n_w_ip"
       ELSE /\ Charge(0, 0)
            /\ pc' = IF found # {} THEN "send" ELSE "select"

\* The IP page of one link: the network networksdbIPPageCIDRRE captures.
NWhoisIPPage ==
    /\ pc = "n_w_ip"
    /\ \/ /\ failed' = TRUE
          /\ NextLink(domains)
       \/ \E c \in {"none", NetBad, Net8} :
             IF c = "none" \/ ~ParseCIDR(c).ok
             THEN /\ failed' = TRUE
                  /\ NextLink(domains)
             ELSE /\ Charge(0, numRateLimitChecks(3))
                  /\ pc' = "n_w_dom"
                  /\ UNCHANGED <<failed, loc, domains>>
    /\ UNCHANGED <<nFrame, updates>>

\* The domains-in-network page: where the section marker and the table
\* marker lie, and the names between them.
DomainPages ==
    {[markers |-> m, names |-> n] :
        m \in {"missing", "inorder", "reversed"}, n \in {{}, {"site.com"}}}

\* page[start:end] with the table marker ending before the section marker.
SlicePanics(page) == page.markers = "reversed"

NWhoisDomains ==
    /\ pc = "n_w_dom"
    /\ \/ /\ failed' = TRUE
          /\ NextLink(domains)
       \/ \E page \in DomainPages :
             IF page.markers = "missing"
             THEN /\ failed' = TRUE
                  /\ NextLink(domains)
             ELSE IF SlicePanics(page)
             THEN /\ Charge(0, 0)
                  /\ pc' = "panic_whoisRequest"
                  /\ UNCHANGED <<failed, loc, domains>>
             ELSE /\ NextLink(domains \cup page.names)
                  /\ UNCHANGED failed
    /\ UNCHANGED <<nFrame, updates>>

Next ==
    \/ NewBaseService
    \/ OnStart
    \/ Deliver
    \/ Stop
    \/ Drain
    \/ LoopEnter
    \/ LoopReturn
    \/ UDequeue
    \/ UNameQuery
    \/ genNewNameEvent
    \/ UExecuteASNAddrQuery
    \/ UExecuteASNQuery
    \/ UQueryWhois
    \/ UReverseWhoisPage
    \/ SendWhoisEvent
    \/ NDequeue
    \/ NApiIPQuery
    \/ NApiOrgInfoQuery
    \/ NApiCandidate
    \/ NApiNetblocks
    \/ NApiASNInfo
    \/ NScrapeIPPage
    \/ NScrapeASPage
    \/ NScrapeASNQuery
    \/ NWhoisLinks
    \/ NWhoisIPPage
    \/ NWhoisDomains

Spec == Init /\ [][Next]_vars

\* The dispatch goroutine's own steps.
Actor ==
    \/ LoopEnter
    \/ LoopReturn
    \/ UDequeue
    \/ UNameQuery
    \/ genNewNameEvent
    \/ UExecuteASNAddrQuery
    \/ UExecuteASNQuery
    \/ UQueryWhois
    \/ UReverseWhoisPage
    \/ SendWhoisEvent
    \/ NDequeue
    \/ NApiIPQuery
    \/ NApiOrgInfoQuery
    \/ NApiCandidate
    \/ NApiNetblocks
    \/ NApiASNInfo
    \/ NScrapeIPPage
    \/ NScrapeASPage
    \/ NScrapeASNQuery
    \/ NWhoisLinks
    \/ NWhoisIPPage
    \/ NWhoisDomains

\* The Go scheduler keeps running a goroutine that can take a step; nothing
\* obliges the orchestrator to deliver, stop or drain.
FairSpec == Spec /\ WF_vars(Actor)

(***************************************************************************)
(* One data set, two runs.  The provider holds one data set about the      *)
(* address 8.8.8.8: the AS its IP page links to, the AS numbers of the     *)
(* organisation, and the netblocks of each AS.  A NetworksDB actor started *)
(* without a key resolves the address by scraping; then an actor started   *)
(* with a key resolves it through the API.  Every answer is the one the    *)
(* data set gives; a call may still fail.                                  *)
(***************************************************************************)
\* The AS the IP page of the address links to.
LinkedAS == 15169

PairData ==
    {[asns |-> a, cidrs |-> c, scraped |-> <<>>] :
        a \in {<<15169>>, <<15169, 64500>>, <<64500, 15169>>},
        c \in [{15169, 64500} -> SUBSET {Net8, Net16, Net10}]}

PairRequests == {[BlankReq EXCEPT !.kind = "asn", !.Address = Addr1]}

\* The AS page of the linked AS, its netblocks as the page's HTML pads them.
PairASPage ==
    [cidrs |-> {IF c = Net8 THEN Net8Padded ELSE c : c \in pair.cidrs[LinkedAS]},
     asn |-> "15169", name |-> TRUE, cc |-> TRUE]

PairInit ==
    /\ actor = "NetworksDB"
    /\ pair \in PairData
    /\ cfgCreds = "nokey"
    /\ svc = "init"
    /\ started = FALSE
    /\ startErr = FALSE
    /\ creds = "nil"
    /\ hasAPIKey = TRUE
    /\ SourceType = "api"
    /\ pc = "select"
    /\ mailbox = <<1>>
    /\ delivered = 1
    /\ done = FALSE
    /\ output = <<>>
    /\ cur = BlankReq
    /\ req = BlankReq
    /\ stack = <<>>
    /\ rec = BlankRec
    /\ rw = BlankRW
    /\ domains = {}
    /\ agg = BlankAgg
    /\ loc = BlankLoc
    /\ adm = 0
    /\ calls = 0
    /\ admitted = FALSE
    /\ ungated = FALSE
    /\ lateCall = FALSE
    /\ nAddrQ = 0
    /\ nASNQ = 0
    /\ failed = FALSE
    /\ updates = <<>>
    /\ emits = 0

\* The started actor takes the request for the address.
PairDequeue == started /\ NDequeueOf(PairRequests)

PairScrapeIPPage == NScrapeIPPageOn({[link |-> TRUE]})

PairScrapeASPage == NScrapeASPageOn({PairASPage})

PairScrapeASNQuery == NScrapeASNQueryOn({PairASPage})

\* NewNetworksDB once more, on a configuration that holds a key, and the
\* same request delivered to the new actor; what the scrape run handed to
\* the cache is kept.
PairSecondRun ==
    /\ pc = "select"
    /\ cur.id = 1
    /\ pair' = [pair EXCEPT !.scraped = updates]
    /\ cfgCreds' = "key"
    /\ started' = FALSE
    /\ startErr' = FALSE
    /\ creds' = "nil"
    /\ hasAPIKey' = TRUE
    /\ SourceType' = "api"
    /\ mailbox' = <<2>>
    /\ delivered' = 2
    /\ UNCHANGED <<actor, svc, done, workVars, rateVars, traceVars, pc, output, emits>>

PairApiIPQuery ==
    NApiIPQueryOn({[Total |-> 1, Results |-> <<[id |-> "X", cidr |-> Net8]>>]})

PairApiOrgInfoQuery ==
    NApiOrgInfoQueryOn({[Total |-> 1, Results |-> <<[ASNs |-> pair.asns]>>]})

PairApiCandidate ==
    NApiCandidateOn({[Total |-> 1, Results |-> pair.cidrs[loc.asns[loc.idx]]]})

PairApiASNInfo ==
    NApiASNInfoOn({[Total |-> 1, Results |-> <<[ASN |-> loc.asn, CountryCode |-> "US"]>>]})

PairNext ==
    \/ OnStart
    \/ PairDequeue
    \/ PairScrapeIPPage
    \/ PairScrapeASPage
    \/ PairScrapeASNQuery
    \/ PairSecondRun
    \/ PairApiIPQuery
    \/ PairApiOrgInfoQuery
    \/ PairApiCandidate
    \/ PairApiASNInfo

PairSpec == PairInit /\ [][PairNext]_vars

(***************************************************************************)
(* What the properties below speak of.                                     *)
(***************************************************************************)
\* The request last dequeued has been fully processed.
Completed == pc = "select" /\ cur.kind # "none"

Facts == {updates[i] : i \in 1..Len(updates)}

(***************************************************************************)
(* C1: in Umbrella's ASN resolution executeASNQuery runs at most once and  *)
(* executeASNAddrQuery at most twice per request, and a query is only ever *)
(* pending while that budget is not used up, so the request terminates.    *)
(***************************************************************************)
C1_OneHopEachWay ==
    /\ nASNQ <= 1
    /\ nAddrQ <= 2
    /\ pc = "u_asnq" => nASNQ = 0
    /\ pc = "u_addrq" => nAddrQ <= 1
    /\ Len(stack) <= 2

\* An AS-number-only request went ASN -> netblocks -> probe address -> ASN and
\* an address request went address -> ASN -> netblocks -> probe address.
C1_Witness == Completed /\ actor = "Umbrella" /\ nASNQ = 1 /\ nAddrQ = 2

(***************************************************************************)
(* C2 as stated: when a request has been processed, the admissions it      *)
(* consumed equal the outbound calls it issued.                            *)
(***************************************************************************)
C2_AdmissionsEqualCalls == Completed => adm = calls

(***************************************************************************)
(* C2 amended: a request never issues more calls than it has consumed      *)
(* admissions; an Umbrella DNS, address or ASN request that issues N >= 1  *)
(* calls consumes exactly N admissions and an Umbrella WHOIS request N + 1.*)
(***************************************************************************)
C2_AdmissionsCoverCalls ==
    /\ adm >= calls
    /\ (Completed /\ actor = "Umbrella" /\ calls > 0) =>
          adm = (IF cur.kind = "whois" THEN calls + 1 ELSE calls)

C2_Witness == Completed /\ actor = "Umbrella" /\ cur.kind = "asn" /\ calls = 3 /\ adm = 3

(***************************************************************************)
(* C3: every outbound call of an actor is preceded by an admission made    *)
(* after the actor's previous outbound call.                               *)
(***************************************************************************)
C3_EveryCallGated == ~ungated

\* The chained and per-link calls have happened: a full Umbrella
\* cross-recursion, or a NetworksDB link followed to its network page.
C3_Witness ==
    /\ ~ungated
    /\ \/ actor = "Umbrella" /\ nAddrQ = 2
       \/ actor = "NetworksDB" /\ cur.kind = "whois" /\ calls >= 3

(***************************************************************************)
(* C4 as stated: queryReverseWhois asks for offsets 0, 500, 1000, ... and, *)
(* when the provider leaves the more-data flag unset for the first time on *)
(* page k+1, it has made exactly k+1 page requests and returns the domains *)
(* marked current on those pages.                                          *)
(***************************************************************************)
C4_PagesUntilPlain ==
    /\ pc = "u_rw" => rw.count = PageSize * rw.served
    /\ (agg.ok /\ agg.plain > 0) =>
          (agg.requests = agg.plain /\ agg.result = agg.current)

(***************************************************************************)
(* C5 as stated, in the case it names: once Done() is closed while a WHOIS *)
(* request is at the send of its result event, whatever the state of the   *)
(* outbound channel, the dispatch loop eventually returns.                 *)
(***************************************************************************)
C5_CancellationObserved == (done /\ pc = "send") ~> (pc = "returned")

(***************************************************************************)
(* C6 as stated: no outbound call is started once Done() is closed.        *)
(***************************************************************************)
C6_NoCallAfterDone == ~lateCall

(***************************************************************************)
(* C7 as stated: the Netblocks of every fact handed to Cache.Update holds  *)
(* no entry twice.                                                         *)
(***************************************************************************)
C7_NetblocksAreSet == \A f \in Facts : NoDup(f.Netblocks)

(***************************************************************************)
(* C8 as stated: a fact handed to Cache.Update with a non-empty Prefix has *)
(* that Prefix among its Netblocks.                                        *)
(***************************************************************************)
C8_PrefixAmongNetblocks ==
    \A f \in Facts : f.Prefix # "" => f.Prefix \in SeqToSet(f.Netblocks)

C10_NoAnswerPanics == pc \notin {"panic_apiOrgInfoQuery", "panic_whoisRequest"}

(***************************************************************************)
(* C11: every domain of a reverse-WHOIS result event of Umbrella, and of   *)
(* the set being gathered for it, is out of scope and was marked current   *)
(* by the provider; the event's domains form a set, and an event is never  *)
(* made of no domain, so in-scope current domains alone emit nothing.      *)
(***************************************************************************)
ProviderCurrent ==
    {d[1] : d \in {e \in UNION {x.Domains : x \in RWhoisEntries} : e[2]}}

C11_OnlyNovelCurrentDomains ==
    actor = "Umbrella" =>
       /\ cur.kind = "whois" =>
             \A d \in domains : ~IsDomainInScope(d) /\ d \in ProviderCurrent
       /\ pc = "send" => domains # {}
       /\ \A i \in 1..Len(output) :
             output[i].type = "whois" =>
                /\ output[i].NewDomains # {}
                /\ \A d \in output[i].NewDomains :
                      ~IsDomainInScope(d) /\ d \in ProviderCurrent

\* An event went out whose aggregation had also returned a current domain
\* that is in scope and one the provider does not mark current.
C11_Witness ==
    /\ actor = "Umbrella"
    /\ Completed
    /\ cur.kind = "whois"
    /\ "in.com" \in agg.result
    /\ \E i \in 1..Len(output) :
          output[i].type = "whois" /\ output[i].NewDomains = {"new.com"}

(***************************************************************************)
(* C12: a WHOIS request puts at most one result event on Output(); the     *)
(* event is sent only for a non-empty set of gathered domains and carries  *)
(* the domain of the request, that set and the actor's tag and name; and a *)
(* request that returns has emitted one exactly when the set is non-empty. *)
(***************************************************************************)
C12_OneEventIffNovel ==
    [][cur'.kind = "whois" =>
          /\ emits' <= 1
          /\ (emits' # emits /\ cur' = cur) =>
                /\ domains # {}
                /\ output' = Append(output,
                                [type |-> "whois", Domain |-> cur.Domain,
                                 NewDomains |-> domains, Tag |-> SourceType,
                                 Source |-> actor])
          /\ (pc # "select" /\ pc' = "select") => (emits' = 1 <=> domains' # {})
      ]_vars

\* Both aggregations ran and the request returned after its one event.
C12_Witness ==
    /\ actor = "Umbrella"
    /\ Completed
    /\ cur.kind = "whois"
    /\ rec.emails # {}
    /\ agg.phase = "ns"
    /\ emits = 1

\* Umbrella has the WHOIS record of the request, and the scope accepted
\* none of its contact emails and none of its name servers.
NothingToAggregate ==
    /\ actor = "Umbrella"
    /\ cur.kind = "whois"
    /\ calls >= 1
    /\ ~failed
    /\ rec.emails = {}
    /\ rec.ns = {}

(***************************************************************************)
(* C13 as stated: when the scope accepts no contact email and no name      *)
(* server of the WHOIS record, the request has issued no query at all and  *)
(* emits no event.                                                         *)
(***************************************************************************)
C13_NoQueryAtAll == NothingToAggregate => (calls = 0 /\ emits = 0)

(***************************************************************************)
(* C13 amended: in that case the fetch of the WHOIS record is the only     *)
(* outbound call of the request: no reverse-WHOIS page is asked for, the   *)
(* request returns, and no event is emitted.                               *)
(***************************************************************************)
C13_NoReverseWhoisQuery ==
    NothingToAggregate =>
       /\ calls = 1
       /\ emits = 0
       /\ agg = BlankAgg
       /\ pc \in {"select", "returned"}

C13_Witness == Completed /\ NothingToAggregate /\ adm = 2

(***************************************************************************)
(* C14: an actor takes a request from its mailbox only while it is waiting *)
(* in the select of its dispatch loop, that is after every call, cache     *)
(* update and send of the previous request, and the requests are taken in  *)
(* the order they arrived in.                                              *)
(***************************************************************************)
C14_OneAtATimeInOrder ==
    [][cur' # cur =>
          /\ pc = "select"
          /\ mailbox # <<>>
          /\ cur'.id = cur.id + 1
          /\ cur'.id = mailbox[1]
          /\ \A i \in 1..Len(mailbox') : mailbox'[i] > cur'.id
      ]_vars

\* The second request to arrive is being processed and has made a call.
C14_Witness ==
    /\ cur.id = 2
    /\ pc \notin {"select", "returned"}
    /\ calls > 0

(***************************************************************************)
(* C15: Umbrella.OnStart returns an error exactly when the configuration   *)
(* holds no API key; NetworksDB.OnStart never returns an error, and it     *)
(* leaves hasAPIKey set and the tag API when a key is configured and       *)
(* clears hasAPIKey and sets the tag SCRAPE when none is.                  *)
(***************************************************************************)
C15_StartWithoutKey ==
    started =>
       /\ actor = "Umbrella" => (startErr <=> cfgCreds # "key")
       /\ actor = "NetworksDB" =>
             /\ ~startErr
             /\ hasAPIKey <=> cfgCreds = "key"
             /\ SourceType = (IF cfgCreds = "key" THEN "api" ELSE "scrape")

\* NetworksDB was started without a key and has served a request by scraping.
C15_Witness ==
    /\ started
    /\ actor = "NetworksDB"
    /\ cfgCreds = "nokey"
    /\ SourceType = "scrape"
    /\ Len(updates) = 1

\* The request being processed is an ASN request that names neither an
\* address nor an AS number.
EmptyASNRequest == cur.kind = "asn" /\ cur.Address = "" /\ cur.ASN = 0

(***************************************************************************)
(* C16: an ASN request with an empty Address and ASN 0 makes no outbound   *)
(* call and hands nothing to the cache, in Umbrella and in NetworksDB: the *)
(* handler returns at once.                                                *)
(***************************************************************************)
C16_EmptyASNRequestFailsFast ==
    EmptyASNRequest =>
       /\ calls = 0
       /\ updates = <<>>
       /\ pc \in {"select", "returned"}

\* Such a request was handled by a started actor that holds its key, so
\* that the test of the input is what ended it.
C16_Witness ==
    /\ EmptyASNRequest
    /\ Completed
    /\ started
    /\ HasKey(creds)
    /\ adm >= 1

\* Some netblock of the set parses and contains the address.
HoldsAddress(S, addr) ==
    \E c \in S : ParseCIDR(c).ok /\ Contains(ParseCIDR(c), ParseIP(addr))

\* The data set is consistent: of the organisation's AS numbers, the one the
\* IP page links to, and no other, lists a netblock containing the address.
PairConsistent ==
    /\ \E i \in 1..Len(pair.asns) : pair.asns[i] = LinkedAS
    /\ \A i \in 1..Len(pair.asns) :
          HoldsAddress(pair.cidrs[pair.asns[i]], Addr1) <=> pair.asns[i] = LinkedAS

\* Both runs have ended and each handed one fact to the cache.
PairDone ==
    /\ Completed
    /\ cur.id = 2
    /\ Len(pair.scraped) = 1
    /\ Len(updates) = 1

(***************************************************************************)
(* C17 as stated: for the same address and a consistent data set, the fact *)
(* of the scrape run and the fact of the API run have the same ASN, the    *)
(* same Prefix and the same netblocks, the first tagged SCRAPE and the     *)
(* second API, and agree on the address and the source.                    *)
(***************************************************************************)
C17_SameFactEitherPath ==
    (PairDone /\ PairConsistent) =>
       LET s == pair.scraped[1]
           a == updates[1]
       IN /\ s.ASN = a.ASN
          /\ s.Prefix = a.Prefix
          /\ SeqToSet(s.Netblocks) = SeqToSet(a.Netblocks)
          /\ s.Address = a.Address
          /\ s.Source = a.Source
          /\ s.Tag = "scrape"
          /\ a.Tag = "api"

(***************************************************************************)
(* C18 as stated: queryReverseWhois asks for no further offset once a page *)
(* came without the more-data flag or with zero total results, whatever    *)
(* the earlier pages held.                                                 *)
(***************************************************************************)
C18_StopsOnFirstPlainPage == pc = "u_rw" => rw.stop = 0

\* NetworksDB resolves an ASN request that names an address through the API.
ApiAddrRun ==
    /\ actor = "NetworksDB"
    /\ hasAPIKey
    /\ cur.kind = "asn"
    /\ cur.Address # ""

(***************************************************************************)
(* C19: on the API path with an address the candidates are queried one at  *)
(* a time in the order of the provider's list; the loop moves on only from *)
(* a candidate whose netblocks do not contain the address and leaves at    *)
(* the first whose netblocks do, with that AS number and that netblock set *)
(* going into the fact; no candidate is queried after it; and when the     *)
(* list is used up without a hit the request ends with no cache update.    *)
(***************************************************************************)
C19_FirstContainingCandidate ==
    ApiAddrRun =>
       /\ pc = "n_api_nb" =>
             /\ loc.idx \in 1..Len(loc.asns)
             /\ calls = 1 + loc.idx
             /\ loc.idx > 1 => ~HoldsAddress(loc.netblocks, loc.addr)
       /\ pc = "n_api_info" =>
             /\ loc.asn = loc.asns[loc.idx]
             /\ HoldsAddress(loc.netblocks, loc.addr)
             /\ calls = 2 + loc.idx
       /\ (Completed /\ updates # <<>>) =>
             /\ Len(updates) = 1
             /\ loc.asn = loc.asns[loc.idx]
             /\ HoldsAddress(loc.netblocks, loc.addr)
             /\ SeqToSet(updates[1].Netblocks) = loc.netblocks
             /\ calls = 3 + loc.idx
       /\ (Completed /\ loc.idx >= 1 /\ ~HoldsAddress(loc.netblocks, loc.addr)) =>
             /\ loc.idx = Len(loc.asns)
             /\ calls = 2 + loc.idx
             /\ updates = <<>>

\* The second candidate of the list was selected and its fact handed over.
C19_Witness ==
    /\ ApiAddrRun
    /\ Completed
    /\ Len(updates) = 1
    /\ loc.idx = 2

(***************************************************************************)
(* C20 as stated: every fact NetworksDB hands to the cache for a known     *)
(* address has as Prefix a netblock that contains the address, on the API  *)
(* path and on the scrape path alike.                                      *)
(***************************************************************************)
C20_PrefixContainsAddress ==
    actor = "NetworksDB" =>
       \A f \in Facts : f.Address # "" => HoldsAddress({f.Prefix}, f.Address)

(***************************************************************************)
(* C21 as stated: when the AS page of the scrape path was fetched and its  *)
(* AS-name or country-code pattern did not match, the AS number, netblocks *)
(* and prefix are still handed to the cache.                               *)
(***************************************************************************)
C21_UnmatchedPatternKeepsFacts ==
    (actor = "NetworksDB" /\ loc.nomatch) => updates # <<>>

\* Umbrella resolved an ASN request that named an AS number only; the
\* netblock query answered, no call failed, and the answer holds a netblock
\* that parses and so could give the probe address.
ProbeAvailable ==
    /\ actor = "Umbrella"
    /\ Completed
    /\ cur.kind = "asn"
    /\ cur.Address = ""
    /\ cur.Prefix = ""
    /\ nASNQ = 1
    /\ ~failed
    /\ \E i \in 1..Len(req.Netblocks) : ParseCIDR(req.Netblocks[i]).ok

(***************************************************************************)
(* C22 as stated: a netblock that does not parse is passed over.  On       *)
(* NetworksDB's API path the loop leaves a candidate behind only when none *)
(* of its netblocks parses and contains the address; and an Umbrella       *)
(* request whose netblock answer holds a netblock fit to give the probe    *)
(* address still hands a fact to the cache.                                *)
(***************************************************************************)
C22_MalformedCIDRSkipped ==
    /\ (ApiAddrRun /\ pc = "n_api_nb" /\ loc.idx > 1) =>
          ~HoldsAddress(loc.netblocks, loc.addr)
    /\ ProbeAvailable => updates # <<>>

\* The program counters of NetworksDB's API path.
ApiPath == {"n_api_ip", "n_api_org", "n_api_nb", "n_api_nb0", "n_api_info"}

(***************************************************************************)
(* C23 as stated: whatever the order of construction, OnStart and the      *)
(* arrival of requests, NetworksDB is on its API path only while           *)
(* credentials with a non-empty key are loaded.                            *)
(***************************************************************************)
C23_ApiPathOnlyWithKey ==
    (actor = "NetworksDB" /\ pc \in ApiPath) => HasKey(creds)

(***************************************************************************)
(* C24 as stated, for the done signal: also when the dispatch goroutine    *)
(* reached its first wait before the constructor had assigned the          *)
(* BaseService, a raised done signal eventually ends the loop.             *)
(***************************************************************************)
C24_LoopHearsDone == (pc = "nilwait" /\ done) ~> (pc = "returned")

\* Umbrella holds no API key, or the request being processed is a DNS or
\* WHOIS request for a domain out of scope.  The credentials are loaded
\* once, so an actor without a key now had none when the request came in.
NothingToAsk ==
    /\ actor = "Umbrella"
    /\ cur.kind # "none"
    /\ \/ ~HasKey(creds)
       \/ cur.kind \in {"dns", "whois"} /\ ~IsDomainInScope(cur.Domain)

(***************************************************************************)
(* C25: a request Umbrella processes without an API key, and a DNS or      *)
(* WHOIS request for a domain out of scope, makes no outbound call, emits  *)
(* no event and hands nothing to the cache: the handler returns at once.   *)
(***************************************************************************)
C25_NoKeyNoScopeNoWork ==
    NothingToAsk =>
       /\ calls = 0
       /\ emits = 0
       /\ updates = <<>>
       /\ pc \in {"select", "returned"}

\* A started Umbrella without a key has handled an ASN request for an
\* address.
C25_Witness ==
    /\ NothingToAsk
    /\ Completed
    /\ started
    /\ ~HasKey(creds)
    /\ cur.kind = "asn"
    /\ cur.Address # ""

(***************************************************************************)
(* C26 as stated: every fact handed to the cache for an ASN request that   *)
(* supplied an address carries that address.                               *)
(***************************************************************************)
C26_AddressKept ==
    (cur.kind = "asn" /\ cur.Address # "") =>
       \A f \in Facts : f.Address = cur.Address

====
